---- MODULE Spec2Model ----
(***************************************************************************)
(* Model of the municipal-bond analysis scripts.                           *)
(*                                                                         *)
(*   src/Visualizations.py               load_and_prepare_data,            *)
(*                                       create_visualizations             *)
(*   src/data/Muni_dashboard_deployment.py   getFileContent, load_all_data *)
(*                                                                         *)
(* Tables are sequences of records (one record per DataFrame row, in row   *)
(* order).  A cell of a numeric or date column is <<>> when it is missing  *)
(* (NaN / NaT) and <<v>> when it holds v; a text cell is the string "NaN"  *)
(* when it is missing; a key cell is 0 when it is missing (pandas matches  *)
(* missing keys with each other in merge and drop_duplicates).             *)
(* Dates are integers yyyymmdd, so that integer order is date order.       *)
(***************************************************************************)
EXTENDS Integers, Sequences, FiniteSets, TLC

VARIABLES
    pc,                 \* position of the Visualizations.py script
    now,                \* the wall-clock date of the run
    df_data,            \* the tables read from the CSV files
    df_bonds,           \* bonds merged with issuers and purposes
    df_trades,          \* trades with trade_date converted
    df_latest_ratings,  \* latest rating per bond, with rating_code_num
    df_latest_trades,   \* latest trade per bond
    df_master,          \* the master table
    df_macro,           \* the macro table handed to create_visualizations
    views,              \* the tables create_visualizations derives
    file_content,       \* dashboard: raw text tables behind getFileContent
    key_i,              \* dashboard: position of load_all_data's loop
    data_dict,          \* dashboard: the cleaned tables of load_all_data
    messages            \* dashboard: st.warning / st.error calls made

vars == <<pc, now, df_data, df_bonds, df_trades, df_latest_ratings,
          df_latest_trades, df_master, df_macro, views,
          file_content, key_i, data_dict, messages>>

vizState == <<pc, now, df_data, df_bonds, df_trades, df_latest_ratings,
              df_latest_trades, df_master, df_macro, views>>

dashState == <<file_content, key_i, data_dict, messages>>

(***************************************************************************)
(* Cells                                                                   *)
(***************************************************************************)
\* A missing numeric or date value (NaN, NaT).
NaN == <<>>

\* A missing text value.
NaNText == "NaN"

\* CSV text of a date cell: an empty cell, text that is no date, or yyyymmdd.
EmptyCell == 0

GarbageCell == -1

IsMissing(c) == c = NaN

Val(c) == c[1]

Range(s) == {s[i] : i \in 1..Len(s)}

(***************************************************************************)
(* pd.to_datetime(column): an empty cell becomes NaT, a date its           *)
(* timestamp; text that is no date raises (errors='raise' is the default). *)
(***************************************************************************)
to_datetime_raises(table, col) ==
    \E i \in 1..Len(table) : table[i][col] = GarbageCell

to_datetime_cell(c) == IF c = EmptyCell THEN NaN ELSE <<c>>

to_datetime(table, col) ==
    [i \in 1..Len(table) |->
        [table[i] EXCEPT ![col] = to_datetime_cell(table[i][col])]]

(***************************************************************************)
(* DataFrame.sort_values(col) with the default kind='quicksort': the rows  *)
(* whose date is NaT are set aside and appended last in their input order  *)
(* (na_position='last'); the others are ordered by numpy's argsort         *)
(* quicksort, an introsort: ranges of more than SMALL_QUICKSORT + 1        *)
(* elements are partitioned around a median of three, shorter ranges are   *)
(* insertion-sorted.  Only the insertion sort keeps equal dates in input   *)
(* order.  The depth limit that switches to heapsort is 2 * floor(log2 n)  *)
(* partitions deep and cannot be reached by the table sizes used here.     *)
(***************************************************************************)
SMALL_QUICKSORT == 16

Swap(t, i, j) == [t EXCEPT ![i] = t[j], ![j] = t[i]]

RECURSIVE ScanUp(_, _, _, _)
ScanUp(v, t, pi, vp) ==
    IF v[t[pi]] < vp THEN ScanUp(v, t, pi + 1, vp) ELSE pi

RECURSIVE ScanDown(_, _, _, _)
ScanDown(v, t, pj, vp) ==
    IF vp < v[t[pj]] THEN ScanDown(v, t, pj - 1, vp) ELSE pj

RECURSIVE PartitionLoop(_, _, _, _, _)
PartitionLoop(v, t, pi, pj, vp) ==
    LET i2 == ScanUp(v, t, pi + 1, vp)
        j2 == ScanDown(v, t, pj - 1, vp)
    IN  IF i2 >= j2 THEN [t |-> t, pi |-> i2]
        ELSE PartitionLoop(v, Swap(t, i2, j2), i2, j2, vp)

\* One partition of t[pl..pr]; returns the permutation and the pivot's place.
Partition(v, t, pl, pr) ==
    LET pm == pl + ((pr - pl) \div 2)
        t1 == IF v[t[pm]] < v[t[pl]] THEN Swap(t, pm, pl) ELSE t
        t2 == IF v[t1[pr]] < v[t1[pm]] THEN Swap(t1, pr, pm) ELSE t1
        t3 == IF v[t2[pm]] < v[t2[pl]] THEN Swap(t2, pm, pl) ELSE t2
        vp == v[t3[pm]]
        t4 == Swap(t3, pm, pr - 1)
        lp == PartitionLoop(v, t4, pl, pr - 1, vp)
    IN  [t |-> Swap(lp.t, lp.pi, pr - 1), pi |-> lp.pi]

RECURSIVE InsertAt(_, _, _, _, _)
InsertAt(v, t, pl, pj, vi) ==
    IF pj > pl /\ v[vi] < v[t[pj - 1]]
    THEN InsertAt(v, [t EXCEPT ![pj] = t[pj - 1]], pl, pj - 1, vi)
    ELSE [t EXCEPT ![pj] = vi]

RECURSIVE InsertionSort(_, _, _, _, _)
InsertionSort(v, t, pl, pr, pi) ==
    IF pi > pr THEN t
    ELSE InsertionSort(v, InsertAt(v, t, pl, pi, t[pi]), pl, pr, pi + 1)

RECURSIVE QuicksortLoop(_, _, _, _, _)
QuicksortLoop(v, t, pl, pr, stack) ==
    IF pr - pl > SMALL_QUICKSORT
    THEN LET p == Partition(v, t, pl, pr)
         IN  IF p.pi - pl < pr - p.pi
             THEN QuicksortLoop(v, p.t, pl, p.pi - 1,
                                <<<<p.pi + 1, pr>>>> \o stack)
             ELSE QuicksortLoop(v, p.t, p.pi + 1, pr,
                                <<<<pl, p.pi - 1>>>> \o stack)
    ELSE LET s == InsertionSort(v, t, pl, pr, pl + 1)
         IN  IF stack = <<>> THEN s
             ELSE QuicksortLoop(v, s, Head(stack)[1], Head(stack)[2],
                                Tail(stack))

\* The argsort permutation of the values v: v[argsort[1]] <= v[argsort[2]] ...
argsort(v) ==
    IF Len(v) = 0 THEN <<>>
    ELSE QuicksortLoop(v, [i \in 1..Len(v) |-> i], 1, Len(v), <<>>)

sort_values(table, col) ==
    LET dated == SelectSeq([i \in 1..Len(table) |-> i],
                           LAMBDA i : ~IsMissing(table[i][col]))
        nat   == SelectSeq([i \in 1..Len(table) |-> i],
                           LAMBDA i : IsMissing(table[i][col]))
        perm  == argsort([k \in 1..Len(dated) |-> Val(table[dated[k]][col])])
        order == [k \in 1..Len(dated) |-> dated[perm[k]]] \o nat
    IN  [k \in 1..Len(table) |-> table[order[k]]]

\* drop_duplicates(subset=[col], keep='last'): of the rows sharing a key the
\* one nearest the end stays; the rows kept stay in their order.
drop_duplicates_last(table, col) ==
    LET idx == SelectSeq([i \in 1..Len(table) |-> i],
                   LAMBDA i : \A j \in (i + 1)..Len(table) :
                                  table[j][col] # table[i][col])
    IN  [k \in 1..Len(idx) |-> table[idx[k]]]

(***************************************************************************)
(* left.merge(right[cols], on=key, how='left'): every left row, in order,  *)
(* once per right row with the same key (in right order), and once with    *)
(* missing values in the attached columns when no right row matches.       *)
(* `na` is the record of the attached columns, all missing.                *)
(***************************************************************************)
Attach(l, r, na) == l @@ [c \in DOMAIN na |-> r[c]]

RECURSIVE merge_left(_, _, _, _, _)
merge_left(left, right, key, na, i) ==
    IF i > Len(left) THEN <<>>
    ELSE LET l == left[i]
             m == SelectSeq(right, LAMBDA r : r[key] = l[key])
         IN  (IF m = <<>> THEN <<l @@ na>>
              ELSE [k \in 1..Len(m) |-> Attach(l, m[k], na)])
             \o merge_left(left, right, key, na, i + 1)

(***************************************************************************)
(* The rating scale and Series.map(RATING_ORDER): a label that is no key   *)
(* of the dict maps to NaN.                                                *)
(***************************************************************************)
RATING_ORDER ==
    ("AAA" :> 1) @@ ("AA+" :> 2) @@ ("AA" :> 3) @@ ("AA-" :> 4) @@
    ("A+" :> 5) @@ ("A" :> 6) @@ ("A-" :> 7) @@
    ("BBB+" :> 8) @@ ("BBB" :> 9) @@ ("BBB-" :> 10) @@
    ("BB+" :> 11) @@ ("BB" :> 12) @@ ("BB-" :> 13) @@
    ("B+" :> 14) @@ ("B" :> 15) @@ ("B-" :> 16) @@
    ("CCC" :> 17) @@ ("CC" :> 18) @@ ("C" :> 19) @@ ("D" :> 20)

\* A faulty variant of the lookup, to measure the rank property against:
\* a label outside the scale gets the default rank 0.
map_rating_order_default(label) ==
    IF label \in DOMAIN RATING_ORDER THEN <<RATING_ORDER[label]>> ELSE <<0>>

map_rating_order(label) ==
    IF label \in DOMAIN RATING_ORDER THEN <<RATING_ORDER[label]>> ELSE NaN

with_rating_code_num(table) ==
    [i \in 1..Len(table) |->
        table[i] @@ [rating_code_num |-> map_rating_order(table[i].rating)]]

(***************************************************************************)
(* Time to maturity: (maturity_date - TODAY).dt.days / 365.25.             *)
(* DayNumber is the day count of a civil date (days since 1970-01-01), so  *)
(* the difference of two day numbers is the timedelta's .days.  The        *)
(* quotient is kept exact, as the fraction (100 * days) / 36525.           *)
(***************************************************************************)
TODAY == 20240601

DayNumber(date) ==
    LET y0  == date \div 10000
        m   == (date \div 100) % 100
        d   == date % 100
        y   == IF m <= 2 THEN y0 - 1 ELSE y0
        era == y \div 400
        yoe == y - era * 400
        mp  == IF m > 2 THEN m - 3 ELSE m + 9
        doy == (153 * mp + 2) \div 5 + d - 1
        doe == yoe * 365 + yoe \div 4 - yoe \div 100 + doy
    IN  era * 146097 + doe - 719468

\* A faulty variant of the reference date: the date the script runs on.
WallClockDate == now

ReferenceDate == TODAY

time_to_maturity(maturity) ==
    IF IsMissing(maturity) THEN NaN
    ELSE <<[num |-> 100 * (DayNumber(Val(maturity)) - DayNumber(ReferenceDate)),
            den |-> 36525]>>

with_time_to_maturity(table) ==
    [i \in 1..Len(table) |->
        table[i] @@
        [time_to_maturity |-> time_to_maturity(table[i].maturity_date)]]

(***************************************************************************)
(* create_visualizations: the tables behind the figures.                   *)
(***************************************************************************)
\* The indexer of Series.sort_values(ascending=False), whose default kind is
\* quicksort: the values are reversed, argsorted, and the positions mapped
\* back and reversed, so the larger value comes first and equal values come
\* in the order that sort leaves.
nargsort_descending(v) ==
    LET n    == Len(v)
        perm == argsort([k \in 1..n |-> v[n + 1 - k]])
    IN  [k \in 1..n |-> n + 1 - perm[n + 1 - k]]

\* The labels and their counts taken in the order of an indexer.
take_counts(uniques, counts, indexer) ==
    [k \in 1..Len(indexer) |->
        [Rating |-> uniques[indexer[k]], Count |-> counts[indexer[k]]]]

\* df_latest_ratings['rating'].value_counts().reset_index(): one row per
\* label, missing labels left out.  The labels are counted in the order they
\* are first met, then the counts are sorted in descending order.
value_counts(table, col) ==
    LET present  == SelectSeq(table, LAMBDA r : r[col] # NaNText)
        firsts   == SelectSeq([i \in 1..Len(present) |-> i],
                        LAMBDA i : \A j \in 1..(i - 1) :
                                       present[j][col] # present[i][col])
        n        == Len(firsts)
        uniques  == [k \in 1..n |-> present[firsts[k]][col]]
        counts   == [k \in 1..n |->
                        Cardinality({i \in 1..Len(present) :
                                        present[i][col] = uniques[k]})]
    IN  take_counts(uniques, counts, nargsort_descending(counts))

\* A faulty variant of the rating distribution: the counts as value_counts
\* lists them, not sorted by rank.
rating_counts_unsorted(latest) == value_counts(latest, "rating")

\* rating_counts['Order'] = rating_counts['Rating'].map(RATING_ORDER).
with_order(counted) ==
    [i \in 1..Len(counted) |->
        counted[i] @@ [Order |-> map_rating_order(counted[i].Rating)]]

\* rating_counts with its Order column mapped from RATING_ORDER, sorted by
\* it (a label without a rank goes last) and the column dropped.
rating_counts(latest) ==
    LET ordered == sort_values(with_order(value_counts(latest, "rating")),
                               "Order")
    IN  [i \in 1..Len(ordered) |->
            [Rating |-> ordered[i].Rating, Count |-> ordered[i].Count]]

\* Series.mean(): missing values are skipped; the mean of no value is NaN.
\* The mean is kept exact, as the fraction sum / count.
mean(cells) ==
    LET present == SelectSeq(cells, LAMBDA c : ~IsMissing(c))
        RECURSIVE Sum(_)
        Sum(i) == IF i > Len(present) THEN 0 ELSE Val(present[i]) + Sum(i + 1)
    IN  IF present = <<>> THEN NaN
        ELSE <<[num |-> Sum(1), den |-> Len(present)]>>

Column(table, col) == [i \in 1..Len(table) |-> table[i][col]]

\* groupby(['purpose_category', 'bond_type'])['yield'].mean().reset_index():
\* one row per pair of keys that occurs; a row with a missing key is in no
\* group (dropna=True).
df_sector_perf(master) ==
    LET keyed == SelectSeq(master, LAMBDA r : r.purpose_category # NaNText
                                              /\ r.bond_type # NaNText)
        pairs == {<<keyed[i].purpose_category, keyed[i].bond_type>> :
                    i \in 1..Len(keyed)}
    IN  {[purpose_category |-> p[1], bond_type |-> p[2],
          yield |-> mean(Column(SelectSeq(keyed,
                           LAMBDA r : r.purpose_category = p[1]
                                      /\ r.bond_type = p[2]), "yield"))] :
         p \in pairs}

\* A faulty variant of fillna(0): the cell is left as it is.
fillna_none(c) == c

fillna0(c) == IF IsMissing(c) THEN <<[num |-> 0, den |-> 1]>> ELSE c

\* pivot(index='purpose_category', columns='bond_type', values='yield')
\* .fillna(0): the grid over the categories and the types of df_sector_perf.
df_heatmap(master) ==
    LET perf    == df_sector_perf(master)
        index   == {g.purpose_category : g \in perf}
        columns == {g.bond_type : g \in perf}
        at(r, c) == LET hit == {g \in perf : g.purpose_category = r
                                             /\ g.bond_type = c}
                    IN  IF hit = {} THEN NaN ELSE (CHOOSE g \in hit : TRUE).yield
    IN  [index |-> index, columns |-> columns,
         values |-> [rc \in index \X columns |-> fillna0(at(rc[1], rc[2]))]]

\* Calendar months as yyyymm.
MonthOf(date) == date \div 100

NextMonth(ym) == IF ym % 100 = 12 THEN ym + 89 ELSE ym + 1

RECURSIVE MonthRange(_, _)
MonthRange(first, last) ==
    IF first > last THEN <<>> ELSE <<first>> \o MonthRange(NextMonth(first), last)

\* resample('M') of a table that has rows and no dated row: the index is all
\* NaT, pandas takes NaT for the first and the last day and raises
\* AttributeError.
resample_raises(trades) ==
    /\ Len(trades) > 0
    /\ \A i \in 1..Len(trades) : IsMissing(trades[i].trade_date)

\* set_index('trade_date').resample('M').agg({'yield': 'mean',
\* 'trade_price': 'mean'}).reset_index(), the date column renamed: one row
\* for every calendar month from the month of the earliest trade to the
\* month of the latest one; the rows without a trade date fall in no month.
\* The value is "AttributeError" where the call raises.
\* A month is labelled by its yyyymm here (pandas labels it by its last day).
df_trades_monthly(trades) ==
    LET dated  == SelectSeq(trades, LAMBDA r : ~IsMissing(r.trade_date))
        months == {MonthOf(Val(dated[i].trade_date)) : i \in 1..Len(dated)}
        first  == CHOOSE m \in months : \A n \in months : m <= n
        last   == CHOOSE m \in months : \A n \in months : n <= m
        bins   == IF months = {} THEN <<>> ELSE MonthRange(first, last)
        in(m)  == SelectSeq(dated, LAMBDA r : MonthOf(Val(r.trade_date)) = m)
    IN  IF resample_raises(trades) THEN "AttributeError"
        ELSE [k \in 1..Len(bins) |->
                [date        |-> bins[k],
                 yield       |-> mean(Column(in(bins[k]), "yield")),
                 trade_price |-> mean(Column(in(bins[k]), "trade_price"))]]

\* df_macro.rename(columns={...}, inplace=True); df_macro['date'] =
\* pd.to_datetime(df_macro['date']): both change the caller's table.
rename_macro(c) ==
    IF c = "state" THEN "state_code"
    ELSE IF c = "unemployment_rate" THEN "unemployment_rate_pct" ELSE c

renamed_macro(macro) ==
    [macro EXCEPT !.columns = [i \in 1..Len(@) |-> rename_macro(@[i])]]

\* pd.to_datetime(df_macro['date']) raises on a cell that is no date; the
\* rename of the line before has then been done.
macro_date_raises(macro) ==
    \E i \in 1..Len(macro.date) : macro.date[i] = GarbageCell

prepare_macro(macro) ==
    [renamed_macro(macro) EXCEPT
        !.date_dtype = "datetime64[ns]",
        !.date = [i \in 1..Len(@) |-> to_datetime_cell(@[i])]]

(***************************************************************************)
(* Visualizations.py, statement by statement.  pc names the statement to   *)
(* run next; "raised" is the script ended by an uncaught exception in      *)
(* load_and_prepare_data, "viz_raised" by one in create_visualizations.    *)
(***************************************************************************)
NoIssuer == [state |-> NaNText, issuer_name |-> NaNText]

NoPurpose == [purpose_category |-> NaNText]

NoTrade == [yield |-> NaN, trade_date |-> NaN, trade_price |-> NaN]

NoRating == [rating |-> NaNText, rating_code_num |-> NaN]

\* The files load_and_prepare_data reads, by the keys of CSV_FILES.
CSV_FILES == {"issuers", "purposes", "bonds", "ratings", "trades", "macro"}

\* df_data = {key: pd.read_csv(f) for key, f in CSV_FILES.items()} in its
\* try block.  Before this step df_data stands for the directory: it has a
\* table for each file that is there.  A file that is not there raises
\* FileNotFoundError: the function prints the error and returns None, and
\* the script ends without calling create_visualizations.
ReadCsv ==
    /\ pc = "read_csv"
    /\ pc' = IF \A key \in CSV_FILES : key \in DOMAIN df_data
             THEN "merge_issuers" ELSE "returned_none"
    /\ UNCHANGED <<now, df_data, df_bonds, df_trades, df_latest_ratings,
                   df_latest_trades, df_master, df_macro, views, dashState>>

\* df_bonds = bonds.merge(issuers[['issuer_id', 'state', 'issuer_name']], ...)
MergeIssuers ==
    /\ pc = "merge_issuers"
    /\ df_bonds' = merge_left(df_data.bonds, df_data.issuers, "issuer_id",
                              NoIssuer, 1)
    /\ pc' = "merge_purposes"
    /\ UNCHANGED <<now, df_data, df_trades, df_latest_ratings,
                   df_latest_trades, df_master, df_macro, views, dashState>>

\* df_bonds = df_bonds.merge(purposes, on='purpose_id', how='left')
MergePurposes ==
    /\ pc = "merge_purposes"
    /\ df_bonds' = merge_left(df_bonds, df_data.purposes, "purpose_id",
                              NoPurpose, 1)
    /\ pc' = "prepare_trades"
    /\ UNCHANGED <<now, df_data, df_trades, df_latest_ratings,
                   df_latest_trades, df_master, df_macro, views, dashState>>

\* df_trades = trades.copy(); df_trades['trade_date'] = pd.to_datetime(...)
PrepareTrades ==
    /\ pc = "prepare_trades"
    /\ IF to_datetime_raises(df_data.trades, "trade_date")
       THEN pc' = "raised" /\ UNCHANGED df_trades
       ELSE /\ df_trades' = to_datetime(df_data.trades, "trade_date")
            /\ pc' = "prepare_ratings"
    /\ UNCHANGED <<now, df_data, df_bonds, df_latest_ratings,
                   df_latest_trades, df_master, df_macro, views, dashState>>

\* The latest row of each bond: sort by date, keep each bond's last row.
latest_snapshot(table, date_col) ==
    drop_duplicates_last(sort_values(table, date_col), "bond_id")

\* df_ratings, its rating_date converted; df_latest_ratings with its rank.
PrepareRatings ==
    /\ pc = "prepare_ratings"
    /\ IF to_datetime_raises(df_data.ratings, "rating_date")
       THEN pc' = "raised" /\ UNCHANGED df_latest_ratings
       ELSE /\ df_latest_ratings' = with_rating_code_num(
                   latest_snapshot(to_datetime(df_data.ratings, "rating_date"),
                                   "rating_date"))
            /\ pc' = "latest_trades"
    /\ UNCHANGED <<now, df_data, df_bonds, df_trades,
                   df_latest_trades, df_master, df_macro, views, dashState>>

\* df_latest_trades and its merge into the master table.
MergeTrades ==
    /\ pc = "latest_trades"
    /\ df_latest_trades' = latest_snapshot(df_trades, "trade_date")
    /\ df_master' = merge_left(df_bonds, df_latest_trades', "bond_id",
                               NoTrade, 1)
    /\ pc' = "merge_ratings"
    /\ UNCHANGED <<now, df_data, df_bonds, df_trades, df_latest_ratings,
                   df_macro, views, dashState>>

\* df_master = df_master.merge(df_latest_ratings[[...]], on='bond_id', ...)
MergeRatings ==
    /\ pc = "merge_ratings"
    /\ df_master' = merge_left(df_master, df_latest_ratings, "bond_id",
                               NoRating, 1)
    /\ pc' = "time_to_maturity"
    /\ UNCHANGED <<now, df_data, df_bonds, df_trades, df_latest_ratings,
                   df_latest_trades, df_macro, views, dashState>>

\* maturity_date converted, time_to_maturity computed, the tables returned.
TimeToMaturity ==
    /\ pc = "time_to_maturity"
    /\ IF to_datetime_raises(df_master, "maturity_date")
       THEN pc' = "raised" /\ UNCHANGED df_master
       ELSE /\ df_master' = with_time_to_maturity(
                                to_datetime(df_master, "maturity_date"))
            /\ pc' = "create_visualizations"
    /\ UNCHANGED <<now, df_data, df_bonds, df_trades, df_latest_ratings,
                   df_latest_trades, df_macro, views, dashState>>

\* create_visualizations(df_master, df_trades, df_latest_ratings, df_macro)
CreateVisualizations ==
    /\ pc = "create_visualizations"
    /\ IF resample_raises(df_trades)
       THEN pc' = "viz_raised" /\ UNCHANGED <<views, df_macro>>
       ELSE IF macro_date_raises(df_macro)
       THEN /\ pc' = "viz_raised"
            /\ df_macro' = renamed_macro(df_macro)
            /\ UNCHANGED views
       ELSE /\ views' = [rating_counts     |-> rating_counts(df_latest_ratings),
                         df_trades_monthly |-> df_trades_monthly(df_trades),
                         df_heatmap        |-> df_heatmap(df_master)]
            /\ df_macro' = prepare_macro(df_macro)
            /\ pc' = "done"
    /\ UNCHANGED <<now, df_data, df_bonds, df_trades, df_latest_ratings,
                   df_latest_trades, df_master, dashState>>

NextViz ==
    \/ MergeIssuers
    \/ MergePurposes
    \/ PrepareTrades
    \/ PrepareRatings
    \/ MergeTrades
    \/ MergeRatings
    \/ TimeToMaturity
    \/ CreateVisualizations

\* The script from its first statement.
NextScript ==
    \/ ReadCsv
    \/ NextViz

(***************************************************************************)
(* Muni_dashboard_deployment.py.  A cell of a raw table is a number token  *)
(* (its digits m and its count of decimals d: "6.410" is Num(6410, 3)),    *)
(* other text, or empty; read_csv reads an empty cell as missing.          *)
(***************************************************************************)
Num(m, d) == [kind |-> "num", text |-> "", m |-> m, d |-> d]

Text(s) == [kind |-> "text", text |-> s, m |-> 0, d |-> 0]

NA == [kind |-> "nan", text |-> "", m |-> 0, d |-> 0]

isna(c) == c.kind = "nan"

\* Numbers are kept in fixed point, with Decimals decimals.
Decimals == 3

RECURSIVE Pow10(_)
Pow10(n) == IF n = 0 THEN 1 ELSE 10 * Pow10(n - 1)

\* pd.to_numeric(cell, errors='coerce'): the number a token writes, and
\* missing for text that is no number and for a missing cell.
to_numeric(c) ==
    IF c.kind = "num"
    THEN [kind |-> "float", text |-> "", m |-> c.m * Pow10(Decimals - c.d),
          d |-> Decimals]
    ELSE NA

DATA_FILE_PATHS ==
    <<"high_volume_issuers", "credit_sentiment", "long_duration_trades",
      "undervalued_bonds", "yield_spread">>

\* getFileContent('high_volume_issuers'), lines 38-56
content_high_volume_issuers ==
    [header |-> <<"state_code", "issuer_type",
                  "total_bonds_issued", "avg_coupon_rate">>,
     rows |-> <<
        <<Text("TX"), Text("County"), Num(67, 0), Num(3945, 3)>>,
        <<Text("FL"), Text("State"), Num(79, 0), Num(3933, 3)>>,
        <<Text("FL"), Text("Authority"), Num(76, 0), Num(3888, 3)>>,
        <<Text("TX"), Text("State"), Num(61, 0), Num(3888, 3)>>,
        <<Text("CA"), Text("City"), Num(94, 0), Num(3863, 3)>>,
        <<Text("IL"), Text("County"), Num(158, 0), Num(3854, 3)>>,
        <<Text("TX"), Text("Authority"), Num(70, 0), Num(3852, 3)>>,
        <<Text("CA"), Text("Authority"), Num(155, 0), Num(3812, 3)>>,
        <<Text("FL"), Text("District"), Num(70, 0), Num(3797, 3)>>,
        <<Text("CA"), Text("District"), Num(161, 0), Num(3783, 3)>>,
        <<Text("TX"), Text("City"), Num(160, 0), Num(3781, 3)>>,
        <<Text("NY"), Text("County"), Num(79, 0), Num(3745, 3)>>,
        <<Text("IL"), Text("District"), Num(78, 0), Num(3736, 3)>>,
        <<Text("IL"), Text("Authority"), Num(69, 0), Num(3718, 3)>>,
        <<Text("FL"), Text("County"), Num(122, 0), Num(3709, 3)>>,
        <<Text("IL"), Text("City"), Num(80, 0), Num(3702, 3)>>,
        <<Text("NY"), Text("State"), Num(118, 0), Num(3642, 3)>>,
        <<Text("NY"), Text("City"), Num(127, 0), Num(3571, 3)>>>>]

\* getFileContent('credit_sentiment'), lines 60-70
content_credit_sentiment ==
    [header |-> <<"rating_year", "outlook",
                  "total_ratings_in_year", "average_sentiment_score">>,
     rows |-> <<
        <<Num(2024, 0), Text("Positive"), Num(17, 0), Num(10000, 2)>>,
        <<Num(2024, 0), Text("Negative"), Num(9, 0), Num(-10000, 2)>>,
        <<Num(2023, 0), Text("Positive"), Num(23, 0), Num(10000, 2)>>,
        <<Num(2023, 0), Text("Negative"), Num(6, 0), Num(-10000, 2)>>,
        <<Num(2022, 0), Text("Positive"), Num(14, 0), Num(10000, 2)>>,
        <<Num(2022, 0), Text("Negative"), Num(16, 0), Num(-10000, 2)>>,
        <<Num(2021, 0), Text("Positive"), Num(16, 0), Num(10000, 2)>>,
        <<Num(2021, 0), Text("Negative"), Num(14, 0), Num(-10000, 2)>>,
        <<Num(2020, 0), Text("Positive"), Num(9, 0), Num(10000, 2)>>,
        <<Num(2020, 0), Text("Negative"), Num(15, 0), Num(-10000, 2)>>>>]

\* getFileContent('long_duration_trades'), lines 74-81
content_long_duration_trades ==
    [header |-> <<"issuer_name", "purpose_category", "bond_duration",
                  "total_trades", "average_trade_price">>,
     rows |-> <<
        <<Text("FL County #9"), Text("Education"), Num(903, 2), Num(16, 0), Num(10513, 2)>>,
        <<Text("FL County #7"), Text("Education"), Num(957, 2), Num(16, 0), Num(9077, 2)>>,
        <<Text("IL County #4"), Text("Education"), Num(935, 2), Num(12, 0), Num(9983, 2)>>,
        <<Text("IL County #4"), Text("Education"), Num(948, 2), Num(12, 0), Num(10754, 2)>>,
        <<Text("NY County #9"), Text("Education"), Num(953, 2), Num(10, 0), Num(10437, 2)>>,
        <<Text("FL County #4"), Text("Education"), Num(993, 2), Num(10, 0), Num(9492, 2)>>,
        <<Text("TX County #2"), Text("Education"), Num(955, 2), Num(6, 0), Num(8978, 2)>>>>]

\* getFileContent('undervalued_bonds'), lines 85-99
content_undervalued_bonds ==
    [header |-> <<"bond_id", "issuer_name",
                  "latest_trade_price", "bond_historical_avg">>,
     rows |-> <<
        <<Text("BOND0004"), Text("NY Transportation Authority #5"), Num(11357, 2), Num(11384, 2)>>,
        <<Text("BOND0004"), Text("NY Transportation Authority #5"), Num(11357, 2), Num(11384, 2)>>,
        <<Text("BOND1048"), Text("IL Transit District #7"), Num(11189, 2), Num(11309, 2)>>,
        <<Text("BOND1048"), Text("IL Transit District #7"), Num(11189, 2), Num(11309, 2)>>,
        <<Text("BOND0380"), Text("State of NY"), Num(11178, 2), Num(11191, 2)>>,
        <<Text("BOND0380"), Text("State of NY"), Num(11178, 2), Num(11191, 2)>>,
        <<Text("BOND0781"), Text("CA Transit District #1"), Num(11143, 2), Num(11149, 2)>>,
        <<Text("BOND0781"), Text("CA Transit District #1"), Num(11143, 2), Num(11149, 2)>>,
        <<Text("BOND0280"), Text("CA City #7"), Num(11113, 2), Num(11159, 2)>>,
        <<Text("BOND0280"), Text("CA City #7"), Num(11113, 2), Num(11159, 2)>>,
        <<Text("BOND1353"), Text("TX Water District #10"), Num(11066, 2), Num(11077, 2)>>,
        <<Text("BOND1353"), Text("TX Water District #10"), Num(11066, 2), Num(11077, 2)>>,
        <<Text("BOND0760"), Text("IL County #11"), Num(11045, 2), Num(11087, 2)>>,
        <<Text("BOND0760"), Text("IL County #11"), Num(11045, 2), Num(11087, 2)>>>>]

\* getFileContent('yield_spread'), lines 103-119
content_yield_spread ==
    [header |-> <<"trade_id", "issuer_name", "trade_date",
                  "bond_yield", "treasury_rate", "yield_spread_bps">>,
     rows |-> <<
        <<Num(2459, 0), Text("IL City #3"), Text("2021-08-16"), Num(6410, 3), Num(79, 2), Num(5620, 3)>>,
        <<Num(10461, 0), Text("IL City #3"), Text("2021-08-16"), Num(6410, 3), Num(79, 2), Num(5620, 3)>>,
        <<Num(2460, 0), Text("IL City #3"), Text("2021-10-05"), Num(6200, 3), Num(63, 2), Num(5570, 3)>>,
        <<Num(10462, 0), Text("IL City #3"), Text("2021-10-05"), Num(6200, 3), Num(63, 2), Num(5570, 3)>>,
        <<Num(13121, 0), Text("State of NY"), Text("2021-06-19"), Num(6050, 3), Num(60, 2), Num(5450, 3)>>,
        <<Num(5119, 0), Text("State of NY"), Text("2021-06-19"), Num(6050, 3), Num(60, 2), Num(5450, 3)>>,
        <<Num(10800, 0), Text("FL Housing Authority #10"), Text("2020-05-19"), Num(6370, 3), Num(95, 2), Num(5420, 3)>>,
        <<Num(2798, 0), Text("FL Housing Authority #10"), Text("2020-05-19"), Num(6370, 3), Num(95, 2), Num(5420, 3)>>,
        <<Num(13962, 0), Text("IL County #4"), Text("2020-04-13"), Num(6230, 3), Num(84, 2), Num(5390, 3)>>,
        <<Num(5960, 0), Text("IL County #4"), Text("2020-04-13"), Num(6230, 3), Num(84, 2), Num(5390, 3)>>,
        <<Num(1085, 0), Text("FL Transit District #8"), Text("2020-07-10"), Num(5840, 3), Num(53, 2), Num(5310, 3)>>,
        <<Num(9087, 0), Text("FL Transit District #8"), Text("2020-07-10"), Num(5840, 3), Num(53, 2), Num(5310, 3)>>,
        <<Num(9569, 0), Text("State of NY"), Text("2020-01-23"), Num(5900, 3), Num(60, 2), Num(5300, 3)>>,
        <<Num(1567, 0), Text("State of NY"), Text("2020-01-23"), Num(5900, 3), Num(60, 2), Num(5300, 3)>>,
        <<Num(5127, 0), Text("IL County #11"), Text("2021-10-25"), Num(5920, 3), Num(63, 2), Num(5290, 3)>>,
        <<Num(5127, 0), Text("IL County #11"), Text("2021-10-25"), Num(5920, 3), Num(63, 2), Num(5290, 3)>>>>]

\* The raw content the repository ships behind getFileContent.
ShippedContent ==
    [k \in Range(DATA_FILE_PATHS) |->
        CASE k = "high_volume_issuers"  -> content_high_volume_issuers
          [] k = "credit_sentiment"     -> content_credit_sentiment
          [] k = "long_duration_trades" -> content_long_duration_trades
          [] k = "undervalued_bonds"    -> content_undervalued_bonds
          [] k = "yield_spread"         -> content_yield_spread]

\* df.columns = [...]: the names load_all_data gives the columns of a view.
columns_of(key) ==
    CASE key = "high_volume_issuers" ->
            <<"state_code", "issuer_type", "total_bonds_issued", "avg_coupon_rate">>
      [] key = "credit_sentiment" ->
            <<"rating_year", "outlook", "total_ratings_in_year",
              "average_sentiment_score">>
      [] key = "long_duration_trades" ->
            <<"issuer_name", "purpose_category", "bond_duration", "total_trades",
              "average_trade_price">>
      [] key = "undervalued_bonds" ->
            <<"bond_id", "issuer_name", "latest_trade_price", "bond_historical_avg">>
      [] key = "yield_spread" ->
            <<"trade_id", "issuer_name", "trade_date", "bond_yield",
              "treasury_rate", "yield_spread_bps">>

\* The columns a view passes through pd.to_numeric(errors='coerce').
numeric_columns(key) ==
    CASE key = "high_volume_issuers"  -> {"total_bonds_issued", "avg_coupon_rate"}
      [] key = "credit_sentiment"     -> {"rating_year", "total_ratings_in_year",
                                          "average_sentiment_score"}
      [] key = "long_duration_trades" -> {"bond_duration", "total_trades",
                                          "average_trade_price"}
      [] key = "undervalued_bonds"    -> {"latest_trade_price", "bond_historical_avg"}
      [] key = "yield_spread"         -> {"trade_id", "bond_yield", "treasury_rate",
                                          "yield_spread_bps"}

\* The subset of drop_duplicates ({} for a view that drops no duplicates).
duplicate_subset(key) ==
    CASE key = "undervalued_bonds" -> {"bond_id", "latest_trade_price"}
      [] key = "yield_spread"      -> {"trade_id"}
      [] OTHER                     -> {}

\* The columns dropna looks at (all of them when no subset is given).
dropna_subset(key) ==
    CASE key = "high_volume_issuers" -> {"total_bonds_issued", "avg_coupon_rate"}
      [] key = "credit_sentiment"    -> {"rating_year", "outlook",
                                         "total_ratings_in_year"}
      [] OTHER                       -> Range(columns_of(key))

\* pd.read_csv and the assignment of df.columns: a row becomes a record of
\* its cells by column name, with its index label.
with_columns(content, cols) ==
    [i \in 1..Len(content.rows) |->
        [c \in Range(cols) |->
            content.rows[i][CHOOSE p \in 1..Len(cols) : cols[p] = c]]
        @@ [index |-> i - 1]]

coerce_numeric(table, numeric) ==
    [i \in 1..Len(table) |->
        [c \in DOMAIN table[i] |->
            IF c \in numeric THEN to_numeric(table[i][c]) ELSE table[i][c]]]

\* drop_duplicates(subset=..., inplace=True), keep='first': a row goes when an
\* earlier row has the same cells in the subset (missing equals missing).
drop_duplicates_first(table, subset) ==
    IF subset = {} THEN table
    ELSE SelectSeq(table, LAMBDA r :
            ~\E j \in 1..Len(table) :
                /\ table[j].index < r.index
                /\ \A c \in subset : table[j][c] = r[c])

\* A faulty variant of dropna: no row goes.
dropna_none(table, subset) == table

\* dropna(subset=..., inplace=True): a row with a missing cell in the subset goes.
dropna(table, subset) ==
    SelectSeq(table, LAMBDA r : \A c \in subset : ~isna(r[c]))

\* .astype('Int64') of rating_year raises for a number that is no integer.
astype_Int64_raises(table) ==
    \E i \in 1..Len(table) :
        /\ table[i].rating_year.kind = "float"
        /\ table[i].rating_year.m % Pow10(Decimals) # 0

\* .astype('Int64'): the column takes the nullable integer dtype; a missing
\* cell stays missing.
astype_Int64(table) ==
    [i \in 1..Len(table) |->
        [table[i] EXCEPT !.rating_year =
            IF isna(@) THEN @ ELSE [@ EXCEPT !.kind = "Int64"]]]

\* The body of the try block for one key, when the content is there:
\* [raised |-> TRUE] when a statement raises, else the cleaned table.
clean(key, content) ==
    LET cols    == columns_of(key)
        typed   == coerce_numeric(with_columns(content, cols),
                                  numeric_columns(key))
        deduped == drop_duplicates_first(
                       IF key = "credit_sentiment" THEN astype_Int64(typed)
                       ELSE typed,
                       duplicate_subset(key))
    IN  IF Len(content.header) # Len(cols)
        THEN [raised |-> TRUE, df |-> <<>>]
        ELSE IF key = "credit_sentiment" /\ astype_Int64_raises(typed)
        THEN [raised |-> TRUE, df |-> <<>>]
        ELSE [raised |-> FALSE, df |-> dropna(deduped, dropna_subset(key))]

\* One turn of load_all_data's loop over DATA_FILE_PATHS.
LoadKey ==
    /\ key_i \in 1..Len(DATA_FILE_PATHS)
    /\ LET key == DATA_FILE_PATHS[key_i]
       IN  IF key \notin DOMAIN file_content
           THEN /\ messages' = Append(messages, [level |-> "warning", key |-> key])
                /\ UNCHANGED data_dict
           ELSE LET got == clean(key, file_content[key])
                IN  IF got.raised
                    THEN /\ messages' = Append(messages,
                                               [level |-> "error", key |-> key])
                         /\ UNCHANGED data_dict
                    ELSE /\ data_dict' = (key :> got.df) @@ data_dict
                         /\ UNCHANGED messages
    /\ key_i' = key_i + 1
    /\ UNCHANGED <<file_content, vizState>>

\* display_credit_sentiment(df): when the table has rows,
\* df['rating_year'] = df['rating_year'].astype(int) is assigned into the
\* table it was given, whose column takes the dtype int.
display_credit_sentiment(df) ==
    IF df = <<>> THEN df
    ELSE [i \in 1..Len(df) |->
            [df[i] EXCEPT !.rating_year = [@ EXCEPT !.kind = "int"]]]

\* main() does not reach load_all_data or the display functions (it stops
\* at get_db_engine, which the file does not define): the loop of
\* load_all_data is the only step of the dashboard.
NextDash == LoadKey

Loaded == key_i > Len(DATA_FILE_PATHS)

(***************************************************************************)
(* Inputs.  The CSV files are the input of Visualizations.py; each         *)
(* specification below starts the script on a bounded family of tables     *)
(* that varies the columns one stage reads and holds the others fixed.     *)
(***************************************************************************)
MaxFacts == 3

BigRows == 18

MaxDims == 2

MaxRated == 2

MaxMaturing == 2

MaxPivotBonds == 2

MaxTrades == 3

MaxCounted == 3

Seqs(S, n) == UNION {[1..k -> S] : k \in 0..n}

SampleLabels ==
    <<"AAA", "BB", "C", "A-", "AA+", "AA", "AA-", "A+", "A", "BBB+", "BBB",
      "BBB-", "BB+", "BB-", "B+", "B", "B-", "CCC", "CC", "D">>

LabelAt(i) == SampleLabels[((i - 1) % Len(SampleLabels)) + 1]

\* A fact table from its keys and dates: row i gets a label, a yield and a
\* price of its own, so that a row is known by what it carries.
RatingsOf(F) ==
    [i \in 1..Len(F) |->
        [idx |-> i, bond_id |-> F[i].bond_id, rating_date |-> F[i].date,
         rating |-> LabelAt(i)]]

TradesOf(F) ==
    [i \in 1..Len(F) |->
        [idx |-> i, bond_id |-> F[i].bond_id, trade_date |-> F[i].date,
         yield |-> <<100 * i>>, trade_price |-> <<10000 + i>>]]

StdIssuers ==
    <<[issuer_id |-> 1, state |-> "TX", issuer_name |-> "TX County #2"],
      [issuer_id |-> 2, state |-> "NY", issuer_name |-> "State of NY"]>>

StdPurposes ==
    <<[purpose_id |-> 1, purpose_category |-> "Education"],
      [purpose_id |-> 2, purpose_category |-> "Transportation"]>>

StdBonds ==
    <<[bond_id |-> 1, issuer_id |-> 1, purpose_id |-> 1, bond_type |-> "GO",
       maturity_date |-> 20300601],
      [bond_id |-> 2, issuer_id |-> 2, purpose_id |-> 2, bond_type |-> "Revenue",
       maturity_date |-> 20230601],
      [bond_id |-> 3, issuer_id |-> 1, purpose_id |-> 2, bond_type |-> "GO",
       maturity_date |-> 20250601]>>

StdFacts == <<[bond_id |-> 1, date |-> 20240105], [bond_id |-> 2, date |-> 20240220]>>

StdMacro ==
    [columns    |-> <<"date", "state", "unemployment_rate", "treasury_10yr",
                      "vix_index">>,
     date_dtype |-> "object",
     date       |-> <<20240131, 20240229>>]

\* The same file with a date cell that is no date.
BadMacro == [StdMacro EXCEPT !.date = <<20240131, GarbageCell>>]

\* The dashboard is another program: it does not run beside Visualizations.py.
DashOff ==
    /\ file_content = <<>>
    /\ key_i = 0
    /\ data_dict = <<>>
    /\ messages = <<>>

\* Visualizations.py after pd.read_csv of the six files.
VizStart(bonds, issuers, purposes, ratings, trades, clock) ==
    /\ pc = "merge_issuers"
    /\ now = clock
    /\ df_data = [bonds |-> bonds, issuers |-> issuers, purposes |-> purposes,
                  ratings |-> ratings, trades |-> trades]
    /\ df_bonds = <<>>
    /\ df_trades = <<>>
    /\ df_latest_ratings = <<>>
    /\ df_latest_trades = <<>>
    /\ df_master = <<>>
    /\ df_macro = StdMacro
    /\ views = [rating_counts |-> <<>>, df_trades_monthly |-> <<>>,
                df_heatmap |-> [index |-> {}, columns |-> {}, values |-> <<>>]]
    /\ DashOff

\* Snapshot inputs: every table of up to MaxFacts ratings (or trades) of two
\* bonds with dated, empty and unreadable date cells, and the tables of
\* BigRows rows of one day in which bond 1 has two rows.
FactRows == [bond_id : {1, 2}, date : {EmptyCell, GarbageCell, 20240105, 20240220}]

BigFacts ==
    {[i \in 1..BigRows |-> [bond_id |-> IF i \in {p[1], p[2]} THEN 1 ELSE 2,
                            date |-> 20240105]] :
        p \in {q \in (1..BigRows) \X (1..BigRows) : q[1] < q[2]}}

InitSnapshot ==
    \E F \in Seqs(FactRows, MaxFacts) \cup BigFacts :
    \E varied \in {"ratings", "trades"} :
        VizStart(StdBonds, StdIssuers, StdPurposes,
                 RatingsOf(IF varied = "ratings" THEN F ELSE StdFacts),
                 TradesOf(IF varied = "trades" THEN F ELSE StdFacts),
                 TODAY)

SpecSnapshot == InitSnapshot /\ [][NextViz]_vars

\* Rating inputs: up to MaxRated ratings, one per bond, with any label of
\* the scale or a label outside it (another agency's, lower case, "NR", or
\* no label at all).
RankLabels == Range(SampleLabels) \cup {"Aaa", "aaa", "NR", NaNText}

InitRank ==
    \E L \in Seqs(RankLabels, MaxRated) :
        VizStart(StdBonds, StdIssuers, StdPurposes,
                 [i \in 1..Len(L) |->
                    [idx |-> i, bond_id |-> i, rating_date |-> 20240105,
                     rating |-> L[i]]],
                 TradesOf(StdFacts), TODAY)

SpecRank == InitRank /\ [][NextViz]_vars

\* Maturity inputs: up to MaxMaturing bonds that mature before, on and after
\* 2024-06-01, or have an empty or unreadable maturity date; the script runs
\* on 2024-06-01 or on a later day.
MaturityCells ==
    {EmptyCell, GarbageCell, 20230601, 20240531, 20240601, 20240602,
     20250601, 20300601}

RunDates == {TODAY, 20261030}

InitMaturity ==
    \E M \in Seqs(MaturityCells, MaxMaturing) :
    \E clock \in RunDates :
        VizStart([i \in 1..Len(M) |->
                    [bond_id |-> i, issuer_id |-> 1, purpose_id |-> 1,
                     bond_type |-> "GO", maturity_date |-> M[i]]],
                 StdIssuers, StdPurposes,
                 RatingsOf(StdFacts), TradesOf(StdFacts), clock)

SpecMaturity == InitMaturity /\ [][NextViz]_vars

\* Pivot inputs: up to MaxPivotBonds bonds whose purpose is Education,
\* Transportation or unknown (purpose 9 is in no table) and whose type is GO,
\* Revenue or missing; any of them has one trade.
PivotRows == [purpose_id : {1, 2, 9}, bond_type : {"GO", "Revenue", NaNText}]

InitPivot ==
    \E B \in Seqs(PivotRows, MaxPivotBonds) :
    \E traded \in SUBSET (1..MaxPivotBonds) :
        VizStart([i \in 1..Len(B) |->
                    [bond_id |-> i, issuer_id |-> 1,
                     purpose_id |-> B[i].purpose_id,
                     bond_type |-> B[i].bond_type,
                     maturity_date |-> 20300601]],
                 StdIssuers, StdPurposes, RatingsOf(StdFacts),
                 LET T == SelectSeq([i \in 1..MaxPivotBonds |-> i],
                                    LAMBDA b : b \in traded)
                 IN  [i \in 1..Len(T) |->
                        [idx |-> i, bond_id |-> T[i], trade_date |-> 20240105,
                         yield |-> <<100 * T[i] + 200>>,
                         trade_price |-> <<10000 + i>>]],
                 TODAY)

SpecPivot == InitPivot /\ [][NextViz]_vars

\* Resample inputs: up to MaxTrades trades of bond 1 in December 2023,
\* January and March 2024, or without a date, with a yield or without.
ResampleRows ==
    [date : {EmptyCell, 20231215, 20240105, 20240120, 20240310},
     yield : {NaN, <<300>>, <<400>>}]

InitResample ==
    \E T \in Seqs(ResampleRows, MaxTrades) :
        VizStart(StdBonds, StdIssuers, StdPurposes, RatingsOf(StdFacts),
                 [i \in 1..Len(T) |->
                    [idx |-> i, bond_id |-> 1, trade_date |-> T[i].date,
                     yield |-> T[i].yield,
                     trade_price |-> IF T[i].yield = NaN THEN NaN
                                     ELSE <<10000 + i>>]],
                 TODAY)

SpecResample == InitResample /\ [][NextViz]_vars

\* Join inputs: up to MaxDims bonds, issuers and purposes with any keys
\* (repeated, unmatched), and at most one rating and one trade.
BondKeyRows == [bond_id : {1, 2}, issuer_id : {1, 2}, purpose_id : {1, 2}]

BondsOf(K) ==
    [i \in 1..Len(K) |->
        [bond_id |-> K[i].bond_id, issuer_id |-> K[i].issuer_id,
         purpose_id |-> K[i].purpose_id, bond_type |-> StdBonds[i].bond_type,
         maturity_date |-> StdBonds[i].maturity_date]]

IssuersOf(ids) ==
    [i \in 1..Len(ids) |->
        [issuer_id |-> ids[i], state |-> StdIssuers[i].state,
         issuer_name |-> StdIssuers[i].issuer_name]]

PurposesOf(ids) ==
    [i \in 1..Len(ids) |->
        [purpose_id |-> ids[i],
         purpose_category |-> StdPurposes[i].purpose_category]]

InitJoin ==
    \E K \in Seqs(BondKeyRows, MaxDims) :
    \E I \in Seqs({1, 2}, MaxDims), P \in Seqs({1, 2}, MaxDims) :
    \E F \in Seqs([bond_id : {1, 2}, date : {20240105}], 1) :
        VizStart(BondsOf(K), IssuersOf(I), PurposesOf(P),
                 RatingsOf(F), TradesOf(F), TODAY)

SpecJoin == InitJoin /\ [][NextViz]_vars

(***************************************************************************)
(* Claims on the latest-snapshot resolution (SpecSnapshot).                *)
(***************************************************************************)
RatingsResolved ==
    pc \in {"latest_trades", "merge_ratings", "time_to_maturity",
            "create_visualizations", "done"}

TradesResolved ==
    pc \in {"merge_ratings", "time_to_maturity", "create_visualizations", "done"}

IsDate(c) == c \notin {EmptyCell, GarbageCell}

AllDated(table, col) == \A i \in 1..Len(table) : IsDate(table[i][col])

KeysOf(table) == {table[i].bond_id : i \in 1..Len(table)}

\* The rows of key k that carry a date, and among them those of the latest date.
DatedRows(table, col, k) ==
    {i \in 1..Len(table) : table[i].bond_id = k /\ IsDate(table[i][col])}

LatestRows(table, col, k) ==
    {i \in DatedRows(table, col, k) :
        \A j \in DatedRows(table, col, k) : table[j][col] <= table[i][col]}

\* The row the resolution is to keep: the last, in input order, of the rows
\* of the key's latest date.
LastOfLatest(table, col, k) ==
    CHOOSE i \in LatestRows(table, col, k) :
        \A j \in LatestRows(table, col, k) : j <= i

KeepsLastOfLatest(input, col, snapshot) ==
    \A k \in KeysOf(input) :
        /\ Cardinality({j \in 1..Len(snapshot) : snapshot[j].bond_id = k}) = 1
        /\ \A j \in 1..Len(snapshot) :
              snapshot[j].bond_id = k =>
                  snapshot[j].idx = LastOfLatest(input, col, k)

\* C1: in a fact table whose date cells all hold dates, the row kept for a
\* key carries the key's latest date and, when several rows of the key share
\* that date, is the one that comes last in the input; for the rating
\* snapshot and for the trade snapshot.
C1_KeepsLastRowOfLatestDate ==
    /\ (RatingsResolved /\ AllDated(df_data.ratings, "rating_date"))
          => KeepsLastOfLatest(df_data.ratings, "rating_date", df_latest_ratings)
    /\ (TradesResolved /\ AllDated(df_data.trades, "trade_date"))
          => KeepsLastOfLatest(df_data.trades, "trade_date", df_latest_trades)

\* What the bad-date claim asks of one resolved snapshot.
SkipsBadDates(input, col, snapshot) ==
    /\ \A j \in 1..Len(snapshot) : ~IsMissing(snapshot[j][col])
    /\ \A k \in KeysOf(input) :
          Cardinality({j \in 1..Len(snapshot) : snapshot[j].bond_id = k})
              = (IF DatedRows(input, col, k) = {} THEN 0 ELSE 1)

\* C2: a row whose date is missing or unreadable is never the row kept for
\* its key and never ends the run; the snapshot has at most one row per key
\* and exactly one for each key that has a row with a readable date.
C2_BadDatesAreSkipped ==
    /\ pc # "raised"
    /\ RatingsResolved
          => SkipsBadDates(df_data.ratings, "rating_date", df_latest_ratings)
    /\ TradesResolved
          => SkipsBadDates(df_data.trades, "trade_date", df_latest_trades)

(***************************************************************************)
(* Claims on the master table (SpecSnapshot: unique bond, issuer and       *)
(* purpose keys; SpecJoin: any keys).                                      *)
(***************************************************************************)
MasterReturned == pc \in {"create_visualizations", "done"}

\* The labels of the ratings of bond k dated latest, and likewise the yields.
LatestLabels(k) ==
    {df_data.ratings[i].rating : i \in LatestRows(df_data.ratings, "rating_date", k)}

LatestYields(k) ==
    {df_data.trades[i].yield : i \in LatestRows(df_data.trades, "trade_date", k)}

\* C4: with unique issuer, purpose and bond keys the master table has one
\* row per bond, in the order of the bonds, however many ratings and trades
\* the bond has; the row shows a rating of the bond's latest rating date,
\* with the rank of that rating, and a trade of its latest trade date.
C4_OneRowPerBondWithLatestFacts ==
    MasterReturned =>
        /\ Len(df_master) = Len(df_data.bonds)
        /\ \A i \in 1..Len(df_master) :
              LET m == df_master[i]
                  k == df_data.bonds[i].bond_id
              IN  /\ m.bond_id = k
                  /\ LatestLabels(k) # {} =>
                        /\ m.rating \in LatestLabels(k)
                        /\ m.rating_code_num = <<RATING_ORDER[m.rating]>>
                  /\ LatestYields(k) # {} => m.yield \in LatestYields(k)

\* C3: each of the four left joins that build the master table gives as
\* many rows as its left table has, whatever keys the joined table holds.
C3_LeftJoinsKeepRowCount ==
    [][/\ pc = "merge_issuers"  => Len(df_bonds') = Len(df_data.bonds)
       /\ pc = "merge_purposes" => Len(df_bonds') = Len(df_bonds)
       /\ pc = "latest_trades"  => Len(df_master') = Len(df_bonds)
       /\ pc = "merge_ratings"  => Len(df_master') = Len(df_master)]_vars

\* Script inputs: the directory with all six files or with one of them not
\* there, and up to MaxRated ratings and as many trades with dated, empty
\* and unreadable date cells.
StdFiles(ratings, trades, macro) ==
    [bonds |-> StdBonds, issuers |-> StdIssuers, purposes |-> StdPurposes,
     ratings |-> ratings, trades |-> trades, macro |-> macro]

Without(files, gone) == [key \in DOMAIN files \ gone |-> files[key]]

InitScript ==
    \E F \in Seqs(FactRows, MaxRated) :
    \E varied \in {"ratings", "trades"} :
    \E gone \in {{}} \cup {{key} : key \in CSV_FILES} :
    \E macro \in {StdMacro, BadMacro} :
        /\ pc = "read_csv"
        /\ now = TODAY
        /\ df_data = Without(StdFiles(
                         RatingsOf(IF varied = "ratings" THEN F ELSE StdFacts),
                         TradesOf(IF varied = "trades" THEN F ELSE StdFacts),
                         macro),
                         gone)
        /\ df_bonds = <<>>
        /\ df_trades = <<>>
        /\ df_latest_ratings = <<>>
        /\ df_latest_trades = <<>>
        /\ df_master = <<>>
        /\ df_macro = macro
        /\ views = [rating_counts |-> <<>>, df_trades_monthly |-> <<>>,
                    df_heatmap |-> [index |-> {}, columns |-> {}, values |-> <<>>]]
        /\ DashOff

SpecScript == InitScript /\ [][NextScript]_vars

\* Distribution inputs: up to MaxCounted rated bonds, each with one rating
\* whose label is a grade of the scale, a label outside it, or missing;
DistributionLabels == {"AAA", "AA", "BBB-", "D", "NR", NaNText}

\* And the lists of 20 bonds, one grade each but for two labels outside the
\* scale, in the rotations of an order that is not the scale's.
BigLabelLists ==
    {[i \in 1..Len(SampleLabels) |->
        IF i = r + 1 THEN "NR"
        ELSE IF i = ((r + 7) % Len(SampleLabels)) + 1 THEN "Aaa"
        ELSE LabelAt(i + r)] : r \in 0..(Len(SampleLabels) - 1)}

InitDistribution ==
    \E L \in Seqs(DistributionLabels, MaxCounted) \cup BigLabelLists :
        VizStart(StdBonds, StdIssuers, StdPurposes,
                 [i \in 1..Len(L) |->
                    [idx |-> i, bond_id |-> i, rating_date |-> 20240105,
                     rating |-> L[i]]],
                 TradesOf(StdFacts), TODAY)

SpecDistribution == InitDistribution /\ [][NextViz]_vars

\* Dashboard inputs: the content the repository ships, as it is or with one
\* change: a cell that holds text that is no number, an empty cell, a year
\* with a fraction, another number in a yield-spread row, or a key the mock
\* file system has no content for.
VizOff ==
    /\ pc = "off"
    /\ now = TODAY
    /\ df_data = <<>>
    /\ df_bonds = <<>>
    /\ df_trades = <<>>
    /\ df_latest_ratings = <<>>
    /\ df_latest_trades = <<>>
    /\ df_master = <<>>
    /\ df_macro = StdMacro
    /\ views = <<>>

DashStart(content) ==
    /\ file_content = content
    /\ key_i = 1
    /\ data_dict = <<>>
    /\ messages = <<>>
    /\ VizOff

BadCells == {Text("abc"), NA}

\* A number of the yield-spread content written one unit of its last decimal
\* higher (6.410 as 6.411, 0.79 as 0.80), in the yield, the reference rate
\* or the spread column.
Revised(cell) == [cell EXCEPT !.m = cell.m + 1]

RevisedColumns == {4, 5, 6}

WithCell(key, r, c, cell) ==
    [ShippedContent EXCEPT ![key].rows[r][c] = cell]

InitDashboard ==
    \/ DashStart(ShippedContent)
    \/ \E key \in Range(DATA_FILE_PATHS) :
       \E r \in 1..Len(ShippedContent[key].rows) :
       \E c \in 1..Len(ShippedContent[key].header) :
       \E cell \in BadCells :
           DashStart(WithCell(key, r, c, cell))
    \/ \E r \in 1..Len(content_credit_sentiment.rows) :
           DashStart(WithCell("credit_sentiment", r, 1, Num(20205, 1)))
    \/ \E r \in 1..Len(content_yield_spread.rows) :
       \E c \in RevisedColumns :
           DashStart(WithCell("yield_spread", r, c,
                              Revised(content_yield_spread.rows[r][c])))
    \/ \E key \in Range(DATA_FILE_PATHS) :
           DashStart([k \in Range(DATA_FILE_PATHS) \ {key} |-> ShippedContent[k]])

SpecDashboard == InitDashboard /\ [][NextDash]_vars

(***************************************************************************)
(* The rating rank.                                                        *)
(***************************************************************************)
\* The scale as the documentation lists it, from the best grade to the worst.
GradeScale ==
    <<"AAA", "AA+", "AA", "AA-", "A+", "A", "A-", "BBB+", "BBB", "BBB-",
      "BB+", "BB", "BB-", "B+", "B", "B-", "CCC", "CC", "C", "D">>

RankOf(label) ==
    IF \E i \in 1..Len(GradeScale) : GradeScale[i] = label
    THEN <<CHOOSE i \in 1..Len(GradeScale) : GradeScale[i] = label>>
    ELSE NaN

Ranked(table) ==
    \A i \in 1..Len(table) : table[i].rating_code_num = RankOf(table[i].rating)

\* C5: the rank of a label is its position in the scale of 20 grades, 1 for
\* AAA to 20 for D, so the ranks are distinct and rise from the best grade to
\* the worst; a label outside the scale has a missing rank (not 0, not a
\* default) and the run does not stop on it.  Stated on the scale itself, on
\* the latest-rating snapshot and on the master table.
C5_RankIsPositionInScale ==
    /\ Len(GradeScale) = 20
    /\ DOMAIN RATING_ORDER = Range(GradeScale)
    /\ \A i \in 1..Len(GradeScale) : RATING_ORDER[GradeScale[i]] = i
    /\ \A i, j \in 1..Len(GradeScale) :
          i < j => RATING_ORDER[GradeScale[i]] < RATING_ORDER[GradeScale[j]]
    /\ pc # "raised"
    /\ RatingsResolved => /\ Len(df_latest_ratings) = Len(df_data.ratings)
                          /\ Ranked(df_latest_ratings)
    /\ MasterReturned => Ranked(df_master)

\* C5 witness: the run ended with a master table that shows a bond rated D
\* with rank 20 or AAA with rank 1, and a bond whose label is outside the
\* scale, without a rank.
C5_Witness ==
    /\ pc = "done"
    /\ \E i \in 1..Len(df_master) :
          /\ df_master[i].rating \in {"Aaa", "aaa", "NR"}
          /\ df_master[i].rating_code_num = NaN
    /\ \E i \in 1..Len(df_master) :
          \/ df_master[i].rating = "D" /\ df_master[i].rating_code_num = <<20>>
          \/ df_master[i].rating = "AAA" /\ df_master[i].rating_code_num = <<1>>

(***************************************************************************)
(* Time to maturity.                                                       *)
(***************************************************************************)
\* Days from 2024-06-01 to a maturity date, counted on the calendar by hand.
DaysFromReference ==
    (20230601 :> -366) @@ (20240531 :> -1) @@ (20240601 :> 0) @@
    (20240602 :> 1) @@ (20250601 :> 365) @@ (20300601 :> 2191)

ExpectedTimeToMaturity(cell) ==
    IF cell = EmptyCell THEN NaN
    ELSE <<[num |-> 100 * DaysFromReference[cell], den |-> 36525]>>

\* C6: the time to maturity of a master row is the number of days from
\* 2024-06-01 to the maturity date over 365.25, whatever the day the script
\* runs on; it is negative exactly for a maturity date before 2024-06-01;
\* a matured bond keeps its row and does not stop the run (the run stops
\* only on a date cell that cannot be read).
C6_TimeToMaturityFromFixedDate ==
    /\ pc = "raised" => \E i \in 1..Len(df_data.bonds) :
                            df_data.bonds[i].maturity_date = GarbageCell
    /\ MasterReturned =>
          /\ Len(df_master) = Len(df_data.bonds)
          /\ \A i \in 1..Len(df_master) :
                LET cell == df_data.bonds[i].maturity_date
                    ttm  == df_master[i].time_to_maturity
                IN  /\ df_master[i].bond_id = df_data.bonds[i].bond_id
                    /\ ttm = ExpectedTimeToMaturity(cell)
                    /\ cell # EmptyCell =>
                          /\ ttm # NaN
                          /\ (Val(ttm).num < 0) <=> (cell < 20240601)

\* C6 witness: a run on a day later than 2024-06-01 returned a master table
\* with a matured bond, at a negative time to maturity, and a bond maturing
\* one year after 2024-06-01, at 365 / 365.25.
C6_Witness ==
    /\ pc = "done"
    /\ now # TODAY
    /\ \E i \in 1..Len(df_master) :
          /\ df_data.bonds[i].maturity_date = 20230601
          /\ df_master[i].time_to_maturity = <<[num |-> -36600, den |-> 36525]>>
    /\ \E i \in 1..Len(df_master) :
          /\ df_data.bonds[i].maturity_date = 20250601
          /\ df_master[i].time_to_maturity = <<[num |-> 36500, den |-> 36525]>>

(***************************************************************************)
(* The pivot of mean yield, purpose category by bond type.                 *)
(***************************************************************************)
Heatmap == views.df_heatmap

Zero == <<[num |-> 0, den |-> 1]>>

\* The grid has a cell for every row key and column key, each cell holds a
\* number, and a cell no yield was observed for holds 0.
GridIsFull(master) ==
    /\ DOMAIN Heatmap.values = Heatmap.index \X Heatmap.columns
    /\ \A rc \in Heatmap.index \X Heatmap.columns :
          LET seen == {i \in 1..Len(master) :
                          /\ master[i].purpose_category = rc[1]
                          /\ master[i].bond_type = rc[2]
                          /\ master[i].yield # NaN}
          IN  /\ Heatmap.values[rc] # NaN
              /\ seen = {} => Heatmap.values[rc] = Zero
              /\ seen # {} => Val(Heatmap.values[rc]).den = Cardinality(seen)

\* C8 as stated: with R the distinct purpose categories of the master table
\* and C its distinct bond types, the grid has |R| rows and |C| columns and
\* is full.
C8_GridOverAllMasterKeys ==
    pc = "done" =>
        LET R == {df_master[i].purpose_category : i \in 1..Len(df_master)}
                    \ {NaNText}
            C == {df_master[i].bond_type : i \in 1..Len(df_master)} \ {NaNText}
        IN  /\ Cardinality(Heatmap.index) = Cardinality(R)
            /\ Cardinality(Heatmap.columns) = Cardinality(C)
            /\ GridIsFull(df_master)

\* C8, amended: R and C are the purpose categories and the bond types of the
\* master rows that have both a category and a type; the grid has exactly
\* the rows R and the columns C, every cell holds a number, and a cell with
\* no observed yield holds 0.
C8_GridOverFullyKeyedRows ==
    pc = "done" =>
        LET keyed == {i \in 1..Len(df_master) :
                         /\ df_master[i].purpose_category # NaNText
                         /\ df_master[i].bond_type # NaNText}
            R == {df_master[i].purpose_category : i \in keyed}
            C == {df_master[i].bond_type : i \in keyed}
        IN  /\ Heatmap.index = R
            /\ Heatmap.columns = C
            /\ GridIsFull(df_master)

\* C8 witness: a grid of two rows and two columns with a cell that holds a
\* mean yield and a cell that holds 0 for want of an observation.
C8_Witness ==
    /\ pc = "done"
    /\ Cardinality(Heatmap.index) = 2
    /\ Cardinality(Heatmap.columns) = 2
    /\ \E rc \in DOMAIN Heatmap.values : Heatmap.values[rc] = Zero
    /\ \E rc \in DOMAIN Heatmap.values : Val(Heatmap.values[rc]).num > 0

(***************************************************************************)
(* The monthly resample of the trades.                                     *)
(***************************************************************************)
Monthly == views.df_trades_monthly

TradeMonths ==
    {MonthOf(Val(df_trades[i].trade_date)) :
        i \in {j \in 1..Len(df_trades) : df_trades[j].trade_date # NaN}}

\* C9: the monthly table has one row for each calendar month that has a
\* trade, with the mean of the month's yields, and no row for a month
\* without a trade, be it between two months that have trades.
C9_NoBucketForEmptyMonth ==
    pc = "done" =>
        /\ {Monthly[k].date : k \in 1..Len(Monthly)} = TradeMonths
        /\ Len(Monthly) = Cardinality(TradeMonths)
        /\ \A k \in 1..Len(Monthly) :
              Monthly[k].yield =
                  mean(Column(SelectSeq(df_trades, LAMBDA r :
                          /\ r.trade_date # NaN
                          /\ MonthOf(Val(r.trade_date)) = Monthly[k].date),
                       "yield"))

(***************************************************************************)
(* The dashboard's cleaned views.                                          *)
(***************************************************************************)
ViewLoaded(key) == key \in DOMAIN data_dict

RawRows(key) == file_content[key].rows

RawCell(key, i, col) ==
    RawRows(key)[i][CHOOSE p \in 1..Len(columns_of(key)) : columns_of(key)[p] = col]

Unreadable(key, i, col) ==
    col \in numeric_columns(key) /\ RawCell(key, i, col).kind # "num"

Unset(key, i, col) == RawCell(key, i, col).kind = "nan" \/ Unreadable(key, i, col)

\* The rows left when only the duplicates are removed.
FirstRows(key) ==
    {i \in 1..Len(RawRows(key)) :
        duplicate_subset(key) = {} \/
        ~\E j \in 1..(i - 1) :
            \A col \in duplicate_subset(key) :
                \/ Unset(key, i, col) /\ Unset(key, j, col)
                \/ /\ ~Unset(key, i, col) /\ ~Unset(key, j, col)
                   /\ RawCell(key, i, col) = RawCell(key, j, col)}

IndexLabels(key) == {data_dict[key][i].index : i \in 1..Len(data_dict[key])}

\* The columns a view wants a value in: all of them, but the sentiment score
\* of credit_sentiment and the two text columns of high_volume_issuers.
WantedColumns(key) ==
    Range(columns_of(key)) \
        (CASE key = "credit_sentiment"    -> {"average_sentiment_score"}
           [] key = "high_volume_issuers" -> {"state_code", "issuer_type"}
           [] OTHER                       -> {})

FractionalYear(key) ==
    /\ key = "credit_sentiment"
    /\ \E i \in 1..Len(RawRows(key)) :
          /\ RawCell(key, i, "rating_year").kind = "num"
          /\ RawCell(key, i, "rating_year").d > 0

Turn(key) == CHOOSE p \in 1..Len(DATA_FILE_PATHS) : DATA_FILE_PATHS[p] = key

\* C10 as stated: a cell of a numeric column that is no number does not
\* fail the loading, and the cleaned table has the rows of the input less
\* the duplicates only, the row of that cell among them.
C10_RowOfUnreadableCellIsKept ==
    \A key \in DOMAIN file_content :
        (/\ key_i > Turn(key)
         /\ \E i \in 1..Len(RawRows(key)) : \E col \in numeric_columns(key) :
                RawCell(key, i, col).kind = "text") =>
            /\ ViewLoaded(key)
            /\ IndexLabels(key) = {i - 1 : i \in FirstRows(key)}
            /\ Len(data_dict[key]) = Cardinality(FirstRows(key))

\* C10, amended: a cell of a numeric column that is no number does not fail
\* the loading and reads as missing; its row stays in the cleaned table,
\* with the missing marker, only when the view does not want a value in that
\* column (the sentiment score of credit_sentiment); in every other numeric
\* column the row is removed, so the cleaned table has the rows of the input
\* less the duplicates and less the rows with a missing wanted cell.
C10_RowIsKeptOnlyInUnwantedColumn ==
    \A key \in DOMAIN file_content :
        (key_i > Turn(key) /\ ~FractionalYear(key)) =>
            LET kept == {i \in FirstRows(key) :
                            \A col \in WantedColumns(key) : ~Unset(key, i, col)}
            IN  /\ ViewLoaded(key)
                /\ IndexLabels(key) = {i - 1 : i \in kept}
                /\ Len(data_dict[key]) = Cardinality(kept)
                /\ \A k \in 1..Len(data_dict[key]) :
                   \A col \in numeric_columns(key) :
                      LET r == data_dict[key][k]
                      IN  isna(r[col]) <=> Unset(key, r.index + 1, col)

\* C10 witness: the views are loaded without an error message, from a
\* content with a cell that is no number in a numeric column, and the view
\* of that content has lost the row of the cell.
C10_Witness ==
    /\ Loaded
    /\ messages = <<>>
    /\ \E key \in DOMAIN file_content :
       \E i \in FirstRows(key) :
       \E col \in numeric_columns(key) :
          /\ RawCell(key, i, col).kind = "text"
          /\ ViewLoaded(key)
          /\ (i - 1) \notin IndexLabels(key)

(***************************************************************************)
(* Isolation of the views.                                                 *)
(***************************************************************************)
\* The files a view of Visualizations.py draws its data from.
ViewInputs ==
    [rating_counts     |-> {"ratings"},
     df_trades_monthly |-> {"trades"},
     df_heatmap        |-> {"bonds", "purposes", "trades"}]

DateColumn(key) ==
    CASE key = "ratings" -> "rating_date"
      [] key = "trades"  -> "trade_date"
      [] key = "bonds"   -> "maturity_date"

\* A file is intact when it is there and each of its date cells is a date
\* or empty.
Intact(key) ==
    /\ key \in DOMAIN df_data
    /\ key \in {"ratings", "trades", "bonds"} =>
          \A i \in 1..Len(df_data[key]) :
              df_data[key][i][DateColumn(key)] # GarbageCell

RunEndedWithoutViews == pc \in {"returned_none", "raised", "viz_raised"}

\* C11: when a file of one view is missing or fails to load, the views whose
\* own files are intact are still produced: the script ends without its
\* views only if every view has a file that is missing or unreadable.
C11_IntactViewsAreProduced ==
    RunEndedWithoutViews =>
        \A v \in DOMAIN ViewInputs : \E key \in ViewInputs[v] : ~Intact(key)

\* The same for the dashboard: a view whose content is as shipped is loaded
\* whatever happens to the content of another view.
DashboardViewsAreIsolated ==
    \A p \in 1..Len(DATA_FILE_PATHS) :
        LET key == DATA_FILE_PATHS[p]
        IN  (/\ key_i > p
             /\ key \in DOMAIN file_content
             /\ file_content[key] = ShippedContent[key]) =>
                /\ ViewLoaded(key)
                /\ IndexLabels(key) =
                      {r.index : r \in Range(clean(key, ShippedContent[key]).df)}
                /\ \A m \in Range(messages) : m.key # key

(***************************************************************************)
(* Tables handed to a stage.                                               *)
(***************************************************************************)
\* C12: create_visualizations leaves the four tables it is given as they
\* were: same columns, same column names, same cells.
C12_CallerTablesUnchanged ==
    [][pc = "create_visualizations" =>
          /\ df_master' = df_master
          /\ df_trades' = df_trades
          /\ df_latest_ratings' = df_latest_ratings
          /\ df_macro' = df_macro]_vars

\* display_credit_sentiment, called on the cleaned credit_sentiment table,
\* leaves the value of every cell as it was: the dtype of rating_year is
\* what changes in the table it is given.
DisplayKeepsCellValues ==
    (Loaded /\ ViewLoaded("credit_sentiment")) =>
        LET df    == data_dict["credit_sentiment"]
            shown == display_credit_sentiment(df)
        IN  /\ Len(shown) = Len(df)
            /\ \A i \in 1..Len(df) :
                  /\ shown[i].index = df[i].index
                  /\ \A col \in DOMAIN df[i] \ {"index"} :
                        /\ shown[i][col].m = df[i][col].m
                        /\ shown[i][col].d = df[i][col].d
                        /\ shown[i][col].text = df[i][col].text
                        /\ isna(shown[i][col]) = isna(df[i][col])
            /\ df # <<>> => shown # df

(***************************************************************************)
(* The rating distribution.                                                *)
(***************************************************************************)
RatingCounts == views.rating_counts

SnapshotLabels ==
    {df_latest_ratings[i].rating : i \in 1..Len(df_latest_ratings)} \ {NaNText}

\* C13: the rating distribution has one entry per distinct label of the
\* latest-rating snapshot (a missing label is no label), the count of an
\* entry is the number of snapshot rows with its label, and the entries are
\* in ascending rank of the scale, AAA towards D, whatever their counts and
\* their spelling; the labels that have no rank come after the ranked ones.
C13_DistributionInRankOrder ==
    pc = "done" =>
        /\ {RatingCounts[i].Rating : i \in 1..Len(RatingCounts)} = SnapshotLabels
        /\ Len(RatingCounts) = Cardinality(SnapshotLabels)
        /\ \A i \in 1..Len(RatingCounts) :
              RatingCounts[i].Count =
                  Cardinality({j \in 1..Len(df_latest_ratings) :
                      df_latest_ratings[j].rating = RatingCounts[i].Rating})
        /\ \A i, j \in 1..Len(RatingCounts) :
              i < j =>
                 LET ri == RankOf(RatingCounts[i].Rating)
                     rj == RankOf(RatingCounts[j].Rating)
                 IN  /\ ri = NaN => rj = NaN
                     /\ (ri # NaN /\ rj # NaN) => Val(ri) < Val(rj)

\* C13 witness: AAA with one bond is listed before AA with two bonds: the
\* order is neither that of the counts nor that of the alphabet.
C13_Witness ==
    /\ pc = "done"
    /\ Len(RatingCounts) = 2
    /\ RatingCounts[1] = [Rating |-> "AAA", Count |-> 1]
    /\ RatingCounts[2] = [Rating |-> "AA", Count |-> 2]

====
